---- MODULE Spec2Model ----
(***************************************************************************)
(* Model of actix-mock-helper (src/src/lib.rs): MockActorSequence, the     *)
(* ordered list of type-erased callbacks, the handler closure that build() *)
(* hands to Mocker, and simple_mock_actor.                                 *)
(*                                                                         *)
(* A message is a value of some Rust type; its runtime type is `typ`, its  *)
(* content is `payload`.  A user callback is `cb`: `typ` is the Msg type   *)
(* parameter it was written for, `id` names the closure.  The value a      *)
(* callback returns for a message is the uninterpreted application         *)
(* <<id, payload>>.                                                        *)
(*                                                                         *)
(* The handler has no error values: a missing entry makes expect() panic   *)
(* (line 65), a failed downcast makes unwrap() panic (line 54).  A panic   *)
(* unwinds out of the handler, the task that runs the mock actor ends, and *)
(* the sender of that message and of every later one gets an error.        *)
(***************************************************************************)
EXTENDS Integers, Sequences, FiniteSets, TLC

\* Bounds of the model.
MaxEntries == 3
MaxDeliveries == 4

\* The message types of the test module (lines 92-107).
MsgTypes == {"Msg1", "Msg2", "UnknownMessage"}
Payloads == {0, 1}
Messages == [typ : MsgTypes, payload : Payloads]

\* The callbacks of the tests: |_m: &Msg1| 5, |_m: &Msg2| true, |_m: &Msg1| 42.
Callbacks == { [typ |-> "Msg1", id |-> "cb5"],
               [typ |-> "Msg2", id |-> "cbTrue"],
               [typ |-> "Msg1", id |-> "cb42"] }

VARIABLES callbacks, current, actor, via, log

vars == <<callbacks, current, actor, via, log>>

----
\* Option values.
None == <<>>
Some(v) == <<v>>

\* cb(msg): the value the user callback returns for the message.
Apply(cb, m) == <<cb.id, m.payload>>

\* raw_msg.downcast_ref::<Msg>(): Some(&msg) when the runtime type is Msg.
downcast_ref(raw_msg, Msg) == IF raw_msg.typ = Msg THEN Some(raw_msg) ELSE None

\* Vec::get_mut(i): Some(entry) for 0 <= i < len, else None (i is zero-based).
get_mut_wrap(cbs, i) ==
    IF Len(cbs) = 0 THEN None ELSE Some(cbs[(i % Len(cbs)) + 1])

get_mut(cbs, i) == IF i >= 0 /\ i < Len(cbs) THEN Some(cbs[i + 1]) ELSE None

\* The spec's names for the two panics of the handler and for a normal return.
Outcome(panic) ==
    CASE panic = "none"   -> "Success"
      [] panic = "unwrap" -> "TypeMismatch"
      [] panic = "expect" -> "SequenceExhausted"

\* The closure msg() stores for cb (lines 53-57): downcast, unwrap, call cb,
\* box Some(result).  `called` says whether cb ran.
adapter_unchecked(cb, raw_msg) ==
    [panic |-> "none", called |-> TRUE, ret |-> Some(Apply(cb, raw_msg))]

adapter(cb, raw_msg) ==
    LET m == downcast_ref(raw_msg, cb.typ) IN
    IF m = None
    THEN [panic |-> "unwrap", called |-> FALSE, ret |-> None]
    ELSE [panic |-> "none", called |-> TRUE, ret |-> Some(Apply(cb, m[1]))]

\* MockActorSequence::new()
new == [callbacks |-> <<>>, current |-> 0]

\* MockActorSequence::msg(self, cb): push the adapter of cb, return self.
msg_prepend(self, cb) == [self EXCEPT !.callbacks = <<cb>> \o @]

msg(self, cb) == [self EXCEPT !.callbacks = Append(@, cb)]

\* MockActorSequence::build(self): self is moved into the handler closure.
build_drop_last(self) ==
    [self EXCEPT !.callbacks = IF @ = <<>> THEN @ ELSE SubSeq(@, 1, Len(@) - 1)]

build(self) == self

\* The handler closure of build() (lines 64-68) applied to one message with
\* the closure's state (cbs, cur).  `called` lists the zero-based positions
\* whose callback ran, `current` is the cursor the call leaves behind: a
\* panic unwinds before `self.current += 1`.
handler_no_advance(cbs, cur, raw_msg) ==
    LET entry == get_mut(cbs, cur) IN
    IF entry = None
    THEN [panic |-> "expect", called |-> <<>>, ret |-> None, current |-> cur]
    ELSE LET r == adapter(entry[1], raw_msg) IN
         [panic |-> r.panic, called |-> IF r.called THEN <<cur>> ELSE <<>>,
          ret |-> r.ret, current |-> cur]

handler_advance_first(cbs, cur, raw_msg) ==
    LET entry == get_mut(cbs, cur) IN
    IF entry = None
    THEN [panic |-> "expect", called |-> <<>>, ret |-> None, current |-> cur]
    ELSE LET r == adapter(entry[1], raw_msg) IN
         [panic |-> r.panic, called |-> IF r.called THEN <<cur>> ELSE <<>>,
          ret |-> r.ret, current |-> cur + 1]

handler_search(cbs, cur, raw_msg) ==
    LET later == {j \in cur..(Len(cbs) - 1) : cbs[j + 1].typ = raw_msg.typ}
        pos == IF later = {} THEN cur
               ELSE CHOOSE j \in later : \A k \in later : j <= k
        entry == get_mut(cbs, pos) IN
    IF entry = None
    THEN [panic |-> "expect", called |-> <<>>, ret |-> None, current |-> cur]
    ELSE LET r == adapter(entry[1], raw_msg) IN
         [panic |-> r.panic, called |-> IF r.called THEN <<pos>> ELSE <<>>,
          ret |-> r.ret, current |-> IF r.panic = "none" THEN pos + 1 ELSE cur]

handler(cbs, cur, raw_msg) ==
    LET entry == get_mut(cbs, cur) IN
    IF entry = None
    THEN [panic |-> "expect", called |-> <<>>, ret |-> None, current |-> cur]
    ELSE LET r == adapter(entry[1], raw_msg) IN
         [panic |-> r.panic, called |-> IF r.called THEN <<cur>> ELSE <<>>,
          ret |-> r.ret, current |-> IF r.panic = "none" THEN cur + 1 ELSE cur]

\* simple_mock_actor(cb) (line 77).
simple_mock_actor_no_msg(cb) == build(new)

simple_mock_actor(cb) == build(msg(new, cb))

\* What the sender of a message gets back: the value or an error.
Ok(v) == [ok |-> TRUE, val |-> v]
Err == [ok |-> FALSE, val |-> None]

----
\* State after MockActorSequence::new(): no actor yet.
Init ==
    /\ callbacks = new.callbacks
    /\ current = new.current
    /\ actor = "building"
    /\ via = <<>>
    /\ log = <<>>

\* .msg(cb) in the builder chain.
Msg(cb) ==
    /\ actor = "building"
    /\ Len(callbacks) < MaxEntries
    /\ LET self == msg([callbacks |-> callbacks, current |-> current], cb) IN
         /\ callbacks' = self.callbacks
         /\ current' = self.current
    /\ UNCHANGED <<actor, via, log>>

\* .build::<A>(): the mock actor is started with the handler closure.
Build ==
    /\ actor = "building"
    /\ LET self == build([callbacks |-> callbacks, current |-> current]) IN
         /\ callbacks' = self.callbacks
         /\ current' = self.current
    /\ actor' = "started"
    /\ UNCHANGED <<via, log>>

\* simple_mock_actor(cb) instead of a builder chain.
SimpleMockActor(cb) ==
    /\ actor = "building"
    /\ callbacks = <<>>
    /\ LET self == simple_mock_actor(cb) IN
         /\ callbacks' = self.callbacks
         /\ current' = self.current
    /\ actor' = "started"
    /\ via' = <<cb>>
    /\ UNCHANGED log

\* The running mock actor handles one message: a whole call of the handler
\* closure.  A panic ends the actor and the sender gets an error.
Handle(m) ==
    /\ actor = "started"
    /\ Len(log) < MaxDeliveries
    /\ LET r == handler(callbacks, current, m) IN
         /\ current' = r.current
         /\ actor' = IF r.panic = "none" THEN "started" ELSE "stopped"
         /\ log' = Append(log, [msg |-> m, cursor |-> current, handled |-> TRUE,
                                outcome |-> Outcome(r.panic), called |-> r.called,
                                reply |-> IF r.panic = "none" THEN Ok(r.ret[1]) ELSE Err])
    /\ UNCHANGED <<callbacks, via>>

\* A message sent after the actor died of a panic: no handler runs.
SendToStopped(m) ==
    /\ actor = "stopped"
    /\ Len(log) < MaxDeliveries
    /\ log' = Append(log, [msg |-> m, cursor |-> current, handled |-> FALSE,
                           outcome |-> "MailboxClosed", called |-> <<>>,
                           reply |-> Err])
    /\ UNCHANGED <<callbacks, current, actor, via>>

Next ==
    \/ \E cb \in Callbacks : Msg(cb)
    \/ Build
    \/ \E cb \in Callbacks : SimpleMockActor(cb)
    \/ \E m \in Messages : Handle(m)
    \/ \E m \in Messages : SendToStopped(m)

Spec == Init /\ [][Next]_vars

----
\* Helpers of the properties.
N == Len(callbacks)
Last(s) == s[Len(s)]
Built == actor # "building"
Delivered == Len(log') = Len(log) + 1

TypeOK ==
    /\ callbacks \in Seq(Callbacks) /\ Len(callbacks) <= MaxEntries
    /\ current \in 0..MaxEntries
    /\ actor \in {"building", "started", "stopped"}
    /\ Len(log) <= MaxDeliveries

----
\* Entry k (zero-based) is declared for the type of the message.
Matches(k, m) == k < N /\ callbacks[k + 1].typ = m.typ

\* The first k deliveries had the types of entries 0..k-1, in order.
MatchedUpTo(k) == k <= N /\ \A j \in 1..k : callbacks[j].typ = log[j].msg.typ

\* How often the callback of position p ran so far.
Invocations(p) ==
    Cardinality({i \in 1..Len(log) : \E c \in 1..Len(log[i].called) : log[i].called[c] = p})

\* C1 - Order property: when the delivered messages have the declared types
\* in the declared order, the k-th dispatch succeeds and returns the result
\* of the callback of position k applied to the k-th message; matching is by
\* position, so two entries of one type return their own results.
C1_Order ==
    Built => \A k \in 1..Len(log) :
        MatchedUpTo(k) =>
            /\ log[k].outcome = "Success"
            /\ log[k].reply = Ok(Apply(callbacks[k], log[k].msg))
            /\ log[k].called = <<k - 1>>

C1_Witness ==
    /\ N = 3 /\ Len(log) = 3 /\ MatchedUpTo(3)
    /\ callbacks[1].typ = "Msg1" /\ callbacks[2].typ = "Msg2" /\ callbacks[3].typ = "Msg1"
    /\ log[1].reply = Ok(<<"cb5", 1>>) /\ log[3].reply = Ok(<<"cb42", 0>>)

\* C2 - Exhaustion property: the (N+1)-th dispatch call fails with
\* SequenceExhausted whatever the type of its message; the calls before it
\* all succeeded, and the sender of the (N+1)-th message always gets an error.
C2_Exhaustion ==
    Built /\ Len(log) > N =>
        /\ ~log[N + 1].reply.ok
        /\ log[N + 1].called = <<>>
        /\ log[N + 1].handled => log[N + 1].outcome = "SequenceExhausted"
        /\ (\A j \in 1..N : log[j].reply.ok) => log[N + 1].handled

C2_Witness ==
    /\ N = 2 /\ Len(log) = 3
    /\ log[3].handled /\ log[3].outcome = "SequenceExhausted"
    /\ log[3].msg.typ = "UnknownMessage"

\* C3 - Mismatch property: a dispatch at cursor k < N of a message whose type
\* is not the type of entry k fails with TypeMismatch, the sender gets an
\* error, and no callback runs, even if another position expects the type.
C3_Mismatch ==
    \A i \in 1..Len(log) :
        log[i].handled /\ log[i].cursor < N /\ ~Matches(log[i].cursor, log[i].msg) =>
            /\ log[i].outcome = "TypeMismatch"
            /\ ~log[i].reply.ok
            /\ log[i].called = <<>>

C3_Witness ==
    /\ N = 2 /\ Len(log) = 1
    /\ callbacks[1].typ = "Msg1" /\ callbacks[2].typ = "Msg2"
    /\ log[1].handled /\ log[1].msg.typ = "Msg2" /\ log[1].outcome = "TypeMismatch"

\* C4 - No double invocation: whatever messages are delivered, no position's
\* callback runs more than once.
C4_NoDoubleInvocation ==
    \A p \in 0..(N - 1) : Invocations(p) <= 1

C4_Witness ==
    /\ N = 2 /\ Len(log) = 4 /\ Invocations(0) = 1 /\ Invocations(1) = 1
    /\ \A i \in 1..4 : log[i].msg.typ = "Msg1"

\* C5 - In-order invocation: the callback of position k runs only in a
\* dispatch that starts with the cursor at k, and only after the callbacks of
\* positions 0..k-1 ran; the positions invoked so far are a prefix.
C5_InOrder ==
    /\ \A i \in 1..Len(log) : \A c \in 1..Len(log[i].called) :
         /\ log[i].called[c] = log[i].cursor
         /\ \A q \in 0..(log[i].called[c] - 1) :
              \E j \in 1..(i - 1) : log[j].called = <<q>>
    /\ \A p \in 0..(N - 1) : Invocations(p) > 0 => \A q \in 0..p : Invocations(q) > 0

C5_Witness ==
    /\ N = 3 /\ Len(log) = 3
    /\ callbacks[1].typ = "Msg2" /\ callbacks[2].typ = "Msg1" /\ callbacks[3].typ = "Msg2"
    /\ log[1].called = <<0>> /\ log[2].called = <<1>>
    /\ log[3].msg.typ = "Msg1" /\ log[3].called = <<>>

\* C6 - Monotonic cursor: the cursor starts at 0, no step lowers it, a
\* successful dispatch moves it from i to i+1, and the cursors seen by two
\* successive successful dispatches differ by exactly one.
C6_MonotonicCursor ==
    /\ current = 0
    /\ [][/\ current' >= current
          /\ Delivered /\ Last(log').reply.ok =>
               Last(log').cursor = current /\ current' = current + 1]_vars
    /\ [](\A i \in 1..Len(log) : \A j \in (i + 1)..Len(log) :
            /\ log[i].reply.ok /\ log[j].reply.ok
            /\ \A h \in (i + 1)..(j - 1) : ~log[h].reply.ok
            => log[j].cursor = log[i].cursor + 1)

C6_Witness ==
    /\ current = 3 /\ Len(log) = 3
    /\ log[1].cursor = 0 /\ log[2].cursor = 1 /\ log[3].cursor = 2

\* C7 - A dispatch that fails with TypeMismatch at position k leaves the
\* cursor at k and the entry list as it was.
C7_MismatchKeepsSlot ==
    [][Delivered /\ Last(log').outcome = "TypeMismatch" =>
         /\ Last(log').cursor = current
         /\ current' = current
         /\ callbacks' = callbacks]_vars

C7_Witness ==
    /\ N = 3 /\ Len(log) = 2
    /\ log[2].outcome = "TypeMismatch" /\ log[2].cursor = 1 /\ current = 1

\* C8 - After a dispatch failed with TypeMismatch, a later message of the
\* type expected at the then current cursor position is dispatched
\* successfully and returns that entry's callback result.
C8_UsableAfterFailure ==
    \A i \in 1..Len(log) : \A j \in (i + 1)..Len(log) :
        log[i].outcome = "TypeMismatch" /\ Matches(log[j].cursor, log[j].msg) =>
            log[j].reply = Ok(Apply(callbacks[log[j].cursor + 1], log[j].msg))

\* C9 - Every dispatch ends in one of Success, TypeMismatch and
\* SequenceExhausted, decided by the cursor, the entry list and the type of
\* the message: out of range is SequenceExhausted, in range with the entry's
\* type is Success, in range with another type is TypeMismatch; the sender
\* gets a value exactly on Success.
ExpectedOutcome(cbs, cur, typ) ==
    IF cur >= Len(cbs) THEN "SequenceExhausted"
    ELSE IF cbs[cur + 1].typ = typ THEN "Success"
    ELSE "TypeMismatch"

C9_ThreeOutcomes ==
    \A i \in 1..Len(log) : log[i].handled =>
        /\ log[i].outcome \in {"Success", "TypeMismatch", "SequenceExhausted"}
        /\ log[i].outcome = ExpectedOutcome(callbacks, log[i].cursor, log[i].msg.typ)
        /\ log[i].reply.ok <=> log[i].outcome = "Success"

C9_Witness ==
    /\ N = 2 /\ Len(log) = 2
    /\ log[1].outcome = "Success" /\ log[2].outcome = "TypeMismatch"

\* C10 - simple_mock_actor(cb) behaves as the actor built from the one-entry
\* sequence of cb: for every stream of messages both give the same replies;
\* a first message of cb's type returns cb's result and a second message
\* then fails with SequenceExhausted.
OneEntryOutcome(cb, i) ==
    IF i = 1 THEN (IF log[1].msg.typ = cb.typ THEN "Success" ELSE "TypeMismatch")
    ELSE IF i = 2 /\ log[1].msg.typ = cb.typ THEN "SequenceExhausted"
    ELSE "MailboxClosed"

OneEntryReply(cb, i) ==
    IF i = 1 /\ log[1].msg.typ = cb.typ THEN Ok(Apply(cb, log[1].msg)) ELSE Err

BehavesAsOneEntry(cb) ==
    \A i \in 1..Len(log) :
        /\ log[i].outcome = OneEntryOutcome(cb, i)
        /\ log[i].reply = OneEntryReply(cb, i)

C10_SimpleIsOneEntry ==
    /\ via # <<>> => BehavesAsOneEntry(via[1])
    /\ via = <<>> /\ Built /\ N = 1 => BehavesAsOneEntry(callbacks[1])

C10_Witness ==
    /\ via = <<[typ |-> "Msg1", id |-> "cb5"]>> /\ Len(log) = 2
    /\ log[1].reply = Ok(<<"cb5", 0>>)
    /\ log[2].msg.typ = "Msg1" /\ log[2].outcome = "SequenceExhausted"

\* The deliveries that ended in an error for the sender.
Failures == {i \in 1..Len(log) : ~log[i].reply.ok}

\* C11 - Under-delivery is not an error: while fewer messages than entries
\* were delivered and none failed, the actor runs on with the cursor at the
\* number of messages it handled and nobody got an error; an error only
\* ever comes from a dispatch call, and a step that delivers nothing
\* changes neither the cursor nor the actor's fate.
C11_UnderDelivery ==
    /\ [](Built /\ Failures = {} => actor = "started" /\ current = Len(log))
    /\ [](actor = "stopped" <=>
            \E i \in 1..Len(log) : log[i].handled /\ ~log[i].reply.ok)
    /\ [][Built /\ ~Delivered => current' = current /\ actor' = actor]_vars

C11_Witness ==
    /\ actor = "started" /\ N = 3 /\ Len(log) = 1 /\ current = 1
    /\ Failures = {}

\* C12 - Cursor range and terminal state: 0 <= cursor <= N always; a dispatch
\* that finds the cursor at N fails with SequenceExhausted, runs no callback
\* and leaves the cursor at N, and no later message succeeds.
C12_RangeAndTerminal ==
    /\ [](current >= 0 /\ current <= N)
    /\ [](\A i \in 1..Len(log) : log[i].cursor = N =>
            /\ ~log[i].reply.ok
            /\ log[i].called = <<>>
            /\ log[i].handled => log[i].outcome = "SequenceExhausted")
    /\ [][Delivered /\ current = N =>
            /\ current' = N
            /\ ~Last(log').reply.ok
            /\ Last(log').called = <<>>]_vars

C12_Witness ==
    /\ N = 2 /\ current = 2 /\ Len(log) = 4
    /\ log[3].outcome = "SequenceExhausted" /\ log[3].msg.typ = "Msg1"
    /\ ~log[4].reply.ok

\* C13 - Append preserves order: every msg(cb) call of the builder chain adds
\* exactly cb at the end of the entry list and leaves the entries before it
\* as they were, so the list is the callbacks in the order of their
\* appending; the call has no failure result, and new() starts empty.
C13_AppendPreservesOrder ==
    /\ callbacks = <<>>
    /\ [][actor' = "building" /\ callbacks' # callbacks =>
            /\ \E cb \in Callbacks : callbacks' = Append(callbacks, cb)
            /\ SubSeq(callbacks', 1, Len(callbacks)) = callbacks
            /\ Len(callbacks') = Len(callbacks) + 1
            /\ Failures' = {}]_vars
    /\ [][actor' = "building" => Len(callbacks') >= Len(callbacks)]_vars

C13_Witness ==
    /\ actor = "building" /\ N = 3
    /\ callbacks[1].id = "cb42" /\ callbacks[2].id = "cbTrue" /\ callbacks[3].id = "cb5"

\* C14 - Finalize: build() starts the dispatcher with cursor 0 and exactly
\* the entries appended so far, however many; from then on the entry list
\* never changes: nothing is appended, and a dispatch neither adds, removes
\* nor reorders entries.
C14_Finalize ==
    [][/\ actor = "building" /\ actor' # "building" /\ via' = <<>> =>
            current' = 0 /\ callbacks' = callbacks /\ actor' = "started"
       /\ Built => callbacks' = callbacks /\ Built']_vars

C14_Witness ==
    /\ via = <<>> /\ Built /\ N = 3 /\ Len(log) = 4
    /\ callbacks[1].id = "cb5" /\ callbacks[2].id = "cbTrue" /\ callbacks[3].id = "cb42"

\* A step that is a call of the handler which found an entry at the cursor
\* (it reached the matching step).
ReachedMatching == Delivered /\ Last(log').handled /\ Last(log').cursor < N

\* C15 as stated - every dispatch that reaches the matching step, matched or
\* mismatched, moves the cursor from k to k+1.
C15_AdvanceOnEveryAttempt ==
    [][ReachedMatching => current' = current + 1]_vars

\* C15 as amended - a dispatch that reaches the matching step moves the
\* cursor from k to k+1 when the type matches and leaves it at k when the
\* type does not match.
C15_AdvanceOnSuccessOnly ==
    [][ReachedMatching =>
         /\ Last(log').outcome \in {"Success", "TypeMismatch"}
         /\ Last(log').outcome = "Success" => current' = current + 1
         /\ Last(log').outcome = "TypeMismatch" => current' = current]_vars

C15_Witness ==
    /\ N = 3 /\ Len(log) = 3 /\ current = 2
    /\ log[1].outcome = "Success" /\ log[2].outcome = "Success"
    /\ log[3].outcome = "TypeMismatch" /\ log[3].cursor = 2

\* The positions whose callback has run.
InvokedSet == {p \in 0..(N - 1) : Invocations(p) > 0}

\* C16 - The cursor is the number of successful dispatches so far and the
\* positions whose callback ran are exactly 0..cursor-1; a failed dispatch
\* changes neither the cursor nor that set.
C16_CursorCountsSuccesses ==
    /\ [](/\ current = Cardinality({i \in 1..Len(log) : log[i].reply.ok})
          /\ InvokedSet = 0..(current - 1))
    /\ [][Delivered /\ ~Last(log').reply.ok =>
            current' = current /\ InvokedSet' = InvokedSet]_vars

C16_Witness ==
    /\ N = 3 /\ Len(log) = 4 /\ current = 2 /\ InvokedSet = {0, 1}
    /\ log[3].outcome = "TypeMismatch" /\ log[4].outcome = "MailboxClosed"

\* C17 - The type is verified before an entry's adapter is called, so the
\* narrowing inside the adapter always succeeds: no call of an adapter ends
\* in the unwrap() of a failed downcast.
C17_NarrowingAlwaysSucceeds ==
    \A i \in 1..Len(log) :
        log[i].handled /\ log[i].cursor < N =>
            /\ log[i].msg.typ = callbacks[log[i].cursor + 1].typ
            /\ log[i].outcome # "TypeMismatch"

====
